---- MODULE Spec2Model ----
(***************************************************************************)
(* Signal lifecycle coordinator of splunk-otel-js: start(options) and      *)
(* stop() over the process-wide `running` record, with the subsystem       *)
(* engines (tracing, metrics, profiling), the environment accessors and    *)
(* the instrumentation registry as collaborators.                          *)
(***************************************************************************)
EXTENDS Integers, Sequences, FiniteSets, TLC

VARIABLES
  running,         \* the RunningState record: a handle or null per signal
  env,             \* process.env
  diagLogger,      \* the level of the installed diagnostic logger
  meterProviders,  \* the meter provider of each loaded instrumentation
  nCalls,          \* number of start and stop calls made so far
  calls,           \* the two most recent calls, with the promises of stop
  args             \* the options of the most recent start call

vars == <<running, env, diagLogger, meterProviders, nCalls, calls, args>>

----------------------------------------------------------------------------
(* Bounds of the model *)

\* number of start/stop calls made by the application in one behaviour
MaxCalls == 3

\* number of instrumentations the registry reports as loaded
NumInstrumentations == 1

----------------------------------------------------------------------------
(* Values *)

\* running.<signal> = null
NULL == 0

Signals == {"metrics", "profiling", "tracing"}

SignalKeys == {"metrics", "profiling", "tracing"}

\* the keys start accepts besides the three signal keys
AllowedRestKeys == {"accessToken", "endpoint", "serviceName", "logLevel"}

\* JavaScript values of an option, tagged with their type: null, a boolean,
\* a string or an options object
\* an object with no property
EmptyBag == [k \in {} |-> ""]

JsNull == [t |-> "null", v |-> "", bag |-> EmptyBag]
JsBool(b) ==
  [t |-> "boolean", v |-> IF b THEN "true" ELSE "false", bag |-> EmptyBag]
JsString(s) == [t |-> "string", v |-> s, bag |-> EmptyBag]
\* an options object with the properties of bag
JsObjectOf(bag) == [t |-> "object", v |-> "", bag |-> bag]
JsObject == JsObjectOf(EmptyBag)

\* an absent result (undefined) is the empty sequence, a present one <<x>>
Undefined == <<>>
Some(x) == <<x>>
IsUndefined(m) == Len(m) = 0

Restrict(f, S) == [k \in S |-> f[k]]

\* o[k], or undefined when o has no such key
Get(o, k) == IF k \in DOMAIN o THEN Some(o[k]) ELSE Undefined

\* JavaScript truthiness of a tagged value
Truthy(x) ==
  CASE x.t = "null" -> FALSE
    [] x.t = "boolean" -> x.v = "true"
    [] x.t = "string" -> x.v # ""
    [] OTHER -> TRUE

----------------------------------------------------------------------------
(* Environment accessors (./utils) *)

\* toLowerCase on the strings the environment can hold
LowerCase(s) ==
  CASE s = "TRUE" -> "true"
    [] s = "False" -> "false"
    [] s = "DEBUG" -> "debug"
    [] OTHER -> s

\* the value of a variable that is set and not empty, else undefined
getNonEmptyEnvVar(key) ==
  IF key \in DOMAIN env /\ env[key] # "" THEN Some(env[key]) ELSE Undefined

\* "true"/"false" in any case -> the boolean; anything else -> undefined
parseEnvBooleanString(value) ==
  IF IsUndefined(value) THEN Undefined
  ELSE CASE LowerCase(value[1]) = "true" -> Some(TRUE)
         [] LowerCase(value[1]) = "false" -> Some(FALSE)
         [] OTHER -> Undefined

getEnvBoolean(key, def) ==
  LET parsed == parseEnvBooleanString(getNonEmptyEnvVar(key))
  IN IF IsUndefined(parsed) THEN def ELSE parsed[1]

\* level name -> DiagLogLevel
toDiagLogLevel(level) ==
  CASE level = "none" -> "NONE"
    [] level = "error" -> "ERROR"
    [] level = "warn" -> "WARN"
    [] level = "info" -> "INFO"
    [] level = "debug" -> "DEBUG"
    [] level = "verbose" -> "VERBOSE"
    [] OTHER -> "NONE"

\* the level named by the variable; no logging when it names none
parseLogLevel(value) ==
  IF IsUndefined(value) THEN "NONE" ELSE toDiagLogLevel(LowerCase(value[1]))

\* the properties of obj whose key is in keys
pick(obj, keys) == [k \in DOMAIN obj \cap keys |-> obj[k]]

\* the keys of props that are not in the allowed list
ExtraneousProperties(props, allowed) == DOMAIN props \ allowed

\* throws when props has a key outside the allowed list
assertNoExtraneousProperties(props, allowed) ==
  ExtraneousProperties(props, allowed) = {}

----------------------------------------------------------------------------
(* index.ts *)

\* variant: the re-entrant check looks at the tracing handle only
TracingRunning(r) == r.tracing # NULL

\* variant: only the metrics handle is read
MetricsRunning(r) == r.metrics # NULL

AnyRunning(r) == r.metrics # NULL \/ r.profiling # NULL \/ r.tracing # NULL

NoneRunning == [metrics |-> NULL, profiling |-> NULL, tracing |-> NULL]

\* variant: the environment flag is consulted before the caller's option
isSignalEnabledEnvFirst(option, envVar, def) ==
  LET parsed == parseEnvBooleanString(getNonEmptyEnvVar(envVar))
  IN IF ~IsUndefined(parsed) THEN parsed[1]
     ELSE IF ~IsUndefined(option) /\ option[1].t # "null"
     THEN Truthy(option[1])
     ELSE def

\* option ?? parseEnvBooleanString(getNonEmptyEnvVar(envVar)) ?? def,
\* as the condition of an if
isSignalEnabled(option, envVar, def) ==
  IF ~IsUndefined(option) /\ option[1].t # "null"
  THEN Truthy(option[1])
  ELSE LET parsed == parseEnvBooleanString(getNonEmptyEnvVar(envVar))
       IN IF ~IsUndefined(parsed) THEN parsed[1] ELSE def

\* the option names each signal accepts, the shared fields among them
allowedTracingOptions ==
  {"accessToken", "endpoint", "serviceName", "serverTimingEnabled"}

allowedProfilingOptions ==
  {"endpoint", "serviceName", "callstackInterval", "memoryProfilingEnabled"}

allowedMetricsOptions ==
  {"accessToken", "endpoint", "serviceName", "exportIntervalMillis"}

\* variant: on a key of both, the property of the target is kept
ObjectAssignTargetWins(target, source) ==
  IF ~IsUndefined(source) /\ source[1].t = "object"
  THEN [k \in DOMAIN target \cup DOMAIN source[1].bag |->
          IF k \in DOMAIN target THEN target[k] ELSE source[1].bag[k]]
  ELSE target

\* Object.assign(target, source): the properties of an object source are
\* copied over those of target; undefined, null and a boolean have none
ObjectAssign(target, source) ==
  IF ~IsUndefined(source) /\ source[1].t = "object"
  THEN [k \in DOMAIN target \cup DOMAIN source[1].bag |->
          IF k \in DOMAIN source[1].bag THEN source[1].bag[k] ELSE target[k]]
  ELSE target

\* line 85: the options left once the three signal keys are taken out
RestOptions(o) == Restrict(o, DOMAIN o \ SignalKeys)

\* lines 104-107
ProfilingOptions(o) ==
  ObjectAssign(pick(RestOptions(o), allowedProfilingOptions),
               Get(o, "profiling"))

\* variant: the shared fields are left out of the tracing options
TracingOptionsNoShared(o) == ObjectAssign(EmptyBag, Get(o, "tracing"))

\* line 121
TracingOptions(o) ==
  ObjectAssign(pick(RestOptions(o), allowedTracingOptions), Get(o, "tracing"))

\* line 133
MetricsOptions(o) ==
  ObjectAssign(pick(RestOptions(o), allowedMetricsOptions), Get(o, "metrics"))

Instrumentations == 1 .. NumInstrumentations

\* the list the instrumentation registry returns
getLoadedInstrumentations == Instrumentations

StartOps == {"startProfiling", "startTracing", "startMetrics"}

StopOps == {"metrics.stop", "stopTracing", "profiling.stop"}

NoOps == [s \in Signals |-> "none"]

\* no subsystem start has been given options
NonePassed == [s \in Signals |-> Undefined]

BoolName(b) == IF b THEN "true" ELSE "false"

\* variant: memory profiling does not raise the default of metrics
StartProfilingBlockNoRaise(s, o, id, failing, mem) ==
  IF isSignalEnabled(Get(o, "profiling"), "SPLUNK_PROFILER_ENABLED", FALSE)
  THEN IF "startProfiling" \in failing
       THEN [s EXCEPT !.invoked = Append(@, "startProfiling"),
                      !.passed.profiling = Some(ProfilingOptions(o)),
                      !.error = "startProfiling"]
       ELSE [s EXCEPT !.invoked = Append(@, "startProfiling"),
                      !.passed.profiling = Some(ProfilingOptions(o)),
                      !.running.profiling = id,
                      !.mem = BoolName(mem)]
  ELSE s

\* lines 103-117: the profiling block of start. s is the call in progress,
\* id the handle a subsystem start returns, failing the start operations
\* that throw when invoked, mem the memoryProfilingEnabled of the
\* materialized profiling options
StartProfilingBlock(s, o, id, failing, mem) ==
  IF isSignalEnabled(Get(o, "profiling"), "SPLUNK_PROFILER_ENABLED", FALSE)
  THEN IF "startProfiling" \in failing
       THEN [s EXCEPT !.invoked = Append(@, "startProfiling"),
                      !.passed.profiling = Some(ProfilingOptions(o)),
                      !.error = "startProfiling"]
       ELSE [s EXCEPT !.invoked = Append(@, "startProfiling"),
                      !.passed.profiling = Some(ProfilingOptions(o)),
                      !.running.profiling = id,
                      !.mem = BoolName(mem),
                      !.metricsEnabledByDefault = mem]
  ELSE s

\* variant: the default of tracing follows the outcome of profiling
StartTracingBlockByProfiling(s, o, id, failing) ==
  IF s.error # "" THEN s
  ELSE IF isSignalEnabled(Get(o, "tracing"), "SPLUNK_TRACING_ENABLED",
                          ~s.metricsEnabledByDefault)
  THEN IF "startTracing" \in failing
       THEN [s EXCEPT !.invoked = Append(@, "startTracing"),
                      !.passed.tracing = Some(TracingOptions(o)),
                      !.error = "startTracing"]
       ELSE [s EXCEPT !.invoked = Append(@, "startTracing"),
                      !.passed.tracing = Some(TracingOptions(o)),
                      !.running.tracing = id]
  ELSE s

\* lines 119-123
StartTracingBlock(s, o, id, failing) ==
  IF s.error # "" THEN s
  ELSE IF isSignalEnabled(Get(o, "tracing"), "SPLUNK_TRACING_ENABLED", TRUE)
  THEN IF "startTracing" \in failing
       THEN [s EXCEPT !.invoked = Append(@, "startTracing"),
                      !.passed.tracing = Some(TracingOptions(o)),
                      !.error = "startTracing"]
       ELSE [s EXCEPT !.invoked = Append(@, "startTracing"),
                      !.passed.tracing = Some(TracingOptions(o)),
                      !.running.tracing = id]
  ELSE s

\* variant: the raised default wins over the caller and the environment
StartMetricsBlockRaiseWins(s, o, id, failing) ==
  IF s.error # "" THEN s
  ELSE IF s.metricsEnabledByDefault
            \/ isSignalEnabled(Get(o, "metrics"), "SPLUNK_METRICS_ENABLED",
                               FALSE)
  THEN IF "startMetrics" \in failing
       THEN [s EXCEPT !.invoked = Append(@, "startMetrics"),
                      !.passed.metrics = Some(MetricsOptions(o)),
                      !.error = "startMetrics"]
       ELSE [s EXCEPT !.invoked = Append(@, "startMetrics"),
                      !.passed.metrics = Some(MetricsOptions(o)),
                      !.running.metrics = id]
  ELSE s

\* lines 125-135
StartMetricsBlock(s, o, id, failing) ==
  IF s.error # "" THEN s
  ELSE IF isSignalEnabled(Get(o, "metrics"), "SPLUNK_METRICS_ENABLED",
                          s.metricsEnabledByDefault)
  THEN IF "startMetrics" \in failing
       THEN [s EXCEPT !.invoked = Append(@, "startMetrics"),
                      !.passed.metrics = Some(MetricsOptions(o)),
                      !.error = "startMetrics"]
       ELSE [s EXCEPT !.invoked = Append(@, "startMetrics"),
                      !.passed.metrics = Some(MetricsOptions(o)),
                      !.running.metrics = id]
  ELSE s

\* one setMeterProvider call per loaded instrumentation
SetMeterProviderCalls ==
  [i \in 1 .. Cardinality(getLoadedInstrumentations) |-> "setMeterProvider"]

\* variant: the meter provider is injected only when tracing was started
InjectMeterProviderIfTracing(s) ==
  IF s.error # "" \/ s.running.tracing = NULL THEN s
  ELSE LET meterProvider ==
             IF getEnvBoolean("SPLUNK_INSTRUMENTATION_METRICS_ENABLED", FALSE)
             THEN "real" ELSE "noop"
       IN [s EXCEPT !.injected = meterProvider,
                    !.invoked = @ \o SetMeterProviderCalls,
                    !.meterProviders =
                       [i \in DOMAIN @ |->
                          IF i \in getLoadedInstrumentations
                          THEN meterProvider ELSE @[i]]]

\* lines 137-145
InjectMeterProvider(s) ==
  IF s.error # "" THEN s
  ELSE LET meterProvider ==
             IF getEnvBoolean("SPLUNK_INSTRUMENTATION_METRICS_ENABLED", FALSE)
             THEN "real" ELSE "noop"
       IN [s EXCEPT !.injected = meterProvider,
                    !.invoked = @ \o SetMeterProviderCalls,
                    !.meterProviders =
                       [i \in DOMAIN @ |->
                          IF i \in getLoadedInstrumentations
                          THEN meterProvider ELSE @[i]]]

\* lines 94-100
ResolveLogLevel(o) ==
  IF "logLevel" \in DOMAIN o /\ Truthy(o["logLevel"])
  THEN toDiagLogLevel(o["logLevel"].v)
  ELSE parseLogLevel(getNonEmptyEnvVar("OTEL_LOG_LEVEL"))

\* the call in progress as start or stop enters
BeginCall(op) ==
  [op |-> op, result |-> "ok", error |-> "", before |-> running,
   running |-> running, invoked |-> <<>>, setLogger |-> FALSE,
   diagLogger |-> diagLogger, injected |-> "none",
   meterProviders |-> meterProviders, mem |-> "n/a",
   metricsEnabledByDefault |-> FALSE, passed |-> NonePassed,
   ops |-> NoOps, status |-> "n/a"]

\* variant: tracing is started before profiling
StartSignalsTracingFirst(s, o, id, failing, mem) ==
  LET logLevel == ResolveLogLevel(o)
      s1 == IF logLevel # "NONE"
            THEN [s EXCEPT !.setLogger = TRUE, !.diagLogger = logLevel]
            ELSE s
      s2 == StartTracingBlock(s1, o, id, failing)
      s3 == IF s2.error # "" THEN s2
            ELSE StartProfilingBlock(s2, o, id, failing, mem)
      s4 == StartMetricsBlock(s3, o, id, failing)
      s5 == InjectMeterProvider(s4)
  IN IF s5.error # "" THEN [s5 EXCEPT !.result = "subsystem error"] ELSE s5

\* lines 94-145: the logger, the three signals in the order profiling,
\* tracing, metrics, then the meter provider
StartSignals(s, o, id, failing, mem) ==
  LET logLevel == ResolveLogLevel(o)
      s1 == IF logLevel # "NONE"
            THEN [s EXCEPT !.setLogger = TRUE, !.diagLogger = logLevel]
            ELSE s
      s2 == StartProfilingBlock(s1, o, id, failing, mem)
      s3 == StartTracingBlock(s2, o, id, failing)
      s4 == StartMetricsBlock(s3, o, id, failing)
      s5 == InjectMeterProvider(s4)
  IN IF s5.error # "" THEN [s5 EXCEPT !.result = "subsystem error"] ELSE s5

\* variant: the option keys are checked after the signals are started
StartCheckedLateAssert(s, o, id, failing, mem) ==
  LET r == StartSignals(s, o, id, failing, mem)
  IN IF ~assertNoExtraneousProperties(RestOptions(o), AllowedRestKeys)
     THEN [r EXCEPT !.result = "extraneous property"]
     ELSE r

\* lines 85-146: start once the re-entrant check has passed
StartChecked(s, o, id, failing, mem) ==
  IF ~assertNoExtraneousProperties(RestOptions(o), AllowedRestKeys)
  THEN [s EXCEPT !.result = "extraneous property"]
  ELSE StartSignals(s, o, id, failing, mem)

\* variant: the re-entrant check is made after the work of start
StartBodyLateGuard(o, id, failing, mem) ==
  LET s == StartChecked(BeginCall("start"), o, id, failing, mem)
  IN IF AnyRunning(running)
     THEN [s EXCEPT !.result = "already started"]
     ELSE s

\* the body of start, lines 81-146
StartBody(o, id, failing, mem) ==
  IF AnyRunning(running)
  THEN [BeginCall("start") EXCEPT !.result = "already started"]
  ELSE StartChecked(BeginCall("start"), o, id, failing, mem)

\* the entry of calls before any call is made
NoCall ==
  [op |-> "none", result |-> "ok", error |-> "", before |-> NoneRunning,
   after |-> NoneRunning, invoked |-> <<>>, setLogger |-> FALSE,
   injected |-> "none", mem |-> "n/a", passed |-> NonePassed,
   ops |-> NoOps, status |-> "n/a"]

\* what a finished call leaves in calls
CallRecord(s) ==
  [op |-> s.op, result |-> s.result, error |-> s.error, before |-> s.before,
   after |-> s.running, invoked |-> s.invoked, setLogger |-> s.setLogger,
   injected |-> s.injected, mem |-> s.mem, passed |-> s.passed,
   ops |-> s.ops, status |-> s.status]

\* the call before the most recent one, and the most recent one
Prev == calls[1]
Last == calls[2]

Commit(s) ==
  /\ running' = s.running
  /\ diagLogger' = s.diagLogger
  /\ meterProviders' = s.meterProviders
  /\ nCalls' = nCalls + 1
  /\ calls' = <<Last, CallRecord(s)>>

Start(o, failing, mem) ==
  /\ Commit(StartBody(o, nCalls + 1, failing, mem))
  /\ args' = o
  /\ UNCHANGED env

\* variant: metrics.stop() is invoked whether or not the handle is present
StopMetricsBlockNoCheck(s, raising) ==
  IF "metrics.stop" \in raising
  THEN [s EXCEPT !.invoked = Append(@, "metrics.stop"),
                 !.error = "metrics.stop"]
  ELSE [s EXCEPT !.invoked = Append(@, "metrics.stop"),
                 !.ops.metrics = "pending",
                 !.running.metrics = NULL]

\* lines 165-168: metrics.stop() is invoked; when it returns its promise the
\* promise is pushed and the handle cleared, when it throws the body ends
StopMetricsBlock(s, raising) ==
  IF s.running.metrics # NULL
  THEN IF "metrics.stop" \in raising
       THEN [s EXCEPT !.invoked = Append(@, "metrics.stop"),
                      !.error = "metrics.stop"]
       ELSE [s EXCEPT !.invoked = Append(@, "metrics.stop"),
                      !.ops.metrics = "pending",
                      !.running.metrics = NULL]
  ELSE s

\* lines 170-173
StopTracingBlock(s, raising) ==
  IF s.error # "" THEN s
  ELSE IF s.running.tracing # NULL
  THEN IF "stopTracing" \in raising
       THEN [s EXCEPT !.invoked = Append(@, "stopTracing"),
                      !.error = "stopTracing"]
       ELSE [s EXCEPT !.invoked = Append(@, "stopTracing"),
                      !.ops.tracing = "pending",
                      !.running.tracing = NULL]
  ELSE s

\* variant: the profiling handle is kept
StopProfilingBlockKeepsHandle(s, raising) ==
  IF s.error # "" THEN s
  ELSE IF s.running.profiling # NULL
  THEN [s EXCEPT !.invoked = Append(@, "profiling.stop"),
                 !.ops.profiling =
                    IF "profiling.stop" \in raising THEN "fail" ELSE "ok"]
  ELSE s

\* lines 175-183: profiling.stop() runs inside a promise executor, so the
\* promise pushed is already settled: rejected when stop() throws
StopProfilingBlock(s, raising) ==
  IF s.error # "" THEN s
  ELSE IF s.running.profiling # NULL
  THEN [s EXCEPT !.invoked = Append(@, "profiling.stop"),
                 !.ops.profiling =
                    IF "profiling.stop" \in raising THEN "fail" ELSE "ok",
                 !.running.profiling = NULL]
  ELSE s

\* line 185: Promise.all of no promise is fulfilled, of some it is pending
PromiseAll(ops) ==
  IF \A sig \in Signals : ops[sig] = "none" THEN "resolved" ELSE "pending"

\* variant: profiling is stopped first
StopBodyProfilingFirst(raising) ==
  LET s0 == BeginCall("stop")
      s1 == StopProfilingBlock(s0, raising)
      s2 == IF s1.error # "" THEN s1 ELSE StopMetricsBlock(s1, raising)
      s3 == StopTracingBlock(s2, raising)
  IN IF s3.error # ""
     THEN [s3 EXCEPT !.result = "subsystem error", !.status = "rejected"]
     ELSE [s3 EXCEPT !.status = PromiseAll(s3.ops)]

\* the body of stop, lines 162-186; an exception in an async function
\* rejects the promise it returns
StopBody(raising) ==
  LET s0 == BeginCall("stop")
      s1 == StopMetricsBlock(s0, raising)
      s2 == StopTracingBlock(s1, raising)
      s3 == StopProfilingBlock(s2, raising)
  IN IF s3.error # ""
     THEN [s3 EXCEPT !.result = "subsystem error", !.status = "rejected"]
     ELSE [s3 EXCEPT !.status = PromiseAll(s3.ops)]

Stop(raising) ==
  /\ Commit(StopBody(raising))
  /\ UNCHANGED <<env, args>>

\* the promise of metrics.stop() or stopTracing() of call i is fulfilled
ShutdownResolves(i, sig) ==
  /\ calls[i].ops[sig] = "pending"
  /\ calls' = [calls EXCEPT ![i].ops[sig] = "ok"]
  /\ UNCHANGED <<running, env, diagLogger, meterProviders, nCalls, args>>

\* the promise of metrics.stop() or stopTracing() of call i is rejected
ShutdownRejects(i, sig) ==
  /\ calls[i].ops[sig] = "pending"
  /\ calls' = [calls EXCEPT ![i].ops[sig] = "fail"]
  /\ UNCHANGED <<running, env, diagLogger, meterProviders, nCalls, args>>

\* variant: settles with the first promise that settles
PromiseRaceOutcome(ops) ==
  IF \E sig \in Signals : ops[sig] = "fail" THEN "rejected"
  ELSE IF \E sig \in Signals : ops[sig] = "ok" THEN "resolved"
  ELSE "pending"

\* Promise.all: rejected as soon as one promise is rejected, fulfilled once
\* every promise is fulfilled
PromiseAllOutcome(ops) ==
  IF \E sig \in Signals : ops[sig] = "fail" THEN "rejected"
  ELSE IF \A sig \in Signals : ops[sig] \in {"none", "ok"} THEN "resolved"
  ELSE "pending"

\* the promise returned by stop call i settles
PromiseAllSettles(i) ==
  /\ calls[i].status = "pending"
  /\ PromiseAllOutcome(calls[i].ops) # "pending"
  /\ calls' = [calls EXCEPT ![i].status = PromiseAllOutcome(calls[i].ops)]
  /\ UNCHANGED <<running, env, diagLogger, meterProviders, nCalls, args>>

----------------------------------------------------------------------------
(* Inputs *)

MkMap(fields) ==
  [k \in {x \in DOMAIN fields : ~IsUndefined(fields[x])} |-> fields[k][1]]

\* option values of a signal key in the lifecycle specification
SignalOptionValues == {Undefined, Some(JsBool(TRUE)), Some(JsBool(FALSE))}

\* every shape the code distinguishes
SignalOptionValuesAll ==
  {Undefined, Some(JsNull), Some(JsBool(TRUE)), Some(JsBool(FALSE)),
   Some(JsObject)}

LogLevelOptionValues == {Undefined, Some(JsString("debug"))}

ExtraOptionValues == {Undefined, Some(JsString("x"))}

OptionsOver(sigVals, logVals, extraVals) ==
  {MkMap([metrics |-> m, profiling |-> p, tracing |-> t, logLevel |-> l,
          extra |-> x]) :
     m \in sigVals, p \in sigVals, t \in sigVals, l \in logVals,
     x \in extraVals}

EnvOver(flagVals, instrVals, logVals) ==
  {MkMap([SPLUNK_METRICS_ENABLED |-> m, SPLUNK_PROFILER_ENABLED |-> p,
          SPLUNK_TRACING_ENABLED |-> t,
          SPLUNK_INSTRUMENTATION_METRICS_ENABLED |-> i,
          OTEL_LOG_LEVEL |-> l]) :
     m \in flagVals, p \in flagVals, t \in flagVals, i \in instrVals,
     l \in logVals}

FlagValuesAll == {Undefined, Some(""), Some("true"), Some("TRUE"),
                  Some("false"), Some("False"), Some("yes")}

\* the options of the lifecycle specification: every choice of the three
\* signals, and the log level and an unrecognized key beside the three
\* signals enabled
Options ==
  OptionsOver(SignalOptionValues, {Undefined}, {Undefined})
    \cup OptionsOver({Some(JsBool(TRUE))}, LogLevelOptionValues,
                     ExtraOptionValues)

\* values of a signal key with options objects: empty, with a key that is
\* also a shared field, and with a shared field and a key of its own
SignalOptionValuesBags ==
  {Undefined, Some(JsBool(TRUE)), Some(JsBool(FALSE)), Some(JsObject),
   Some(JsObjectOf([endpoint |-> JsString("e2")])),
   Some(JsObjectOf([serviceName |-> JsString("s2"),
                    resource |-> JsString("r")]))}

\* options with the shared fields and options objects
OptionsBags ==
  {MkMap([accessToken |-> a, endpoint |-> e, serviceName |-> n,
          logLevel |-> l, metrics |-> m, profiling |-> p, tracing |-> t]) :
     a \in {Undefined, Some(JsString("t"))},
     e \in {Undefined, Some(JsString("e"))},
     n \in {Undefined, Some(JsString("s"))},
     l \in LogLevelOptionValues,
     m \in SignalOptionValuesBags, p \in SignalOptionValuesBags,
     t \in SignalOptionValuesBags}

OptionsAll == OptionsOver(SignalOptionValuesAll, {Undefined}, {Undefined})

Envs == EnvOver({Undefined}, {Undefined}, {Undefined})

EnvsBags ==
  Envs \cup {MkMap([SPLUNK_METRICS_ENABLED |-> Some("true")])}

EnvsAll == EnvOver(FlagValuesAll, {Undefined, Some("true")},
                   {Undefined, Some("DEBUG")})

----------------------------------------------------------------------------
(* Specifications *)

InitWith(envs) ==
  /\ running = NoneRunning
  /\ env \in envs
  /\ diagLogger = "unset"
  /\ meterProviders = [i \in Instrumentations |-> "unset"]
  /\ nCalls = 0
  /\ calls = <<NoCall, NoCall>>
  /\ args = MkMap([tracing |-> Undefined])

Init == InitWith(Envs)

\* at most one operation fails: the first failure ends the call
AtMostOne(S) == {{}} \cup {{x} : x \in S}

StartCall ==
  /\ nCalls < MaxCalls
  /\ \E o \in Options, failing \in AtMostOne(StartOps), mem \in BOOLEAN :
       Start(o, failing, mem)

StopCall ==
  /\ nCalls < MaxCalls
  /\ \E raising \in AtMostOne(StopOps) : Stop(raising)

ShutdownSettles ==
  \E i \in DOMAIN calls, sig \in {"metrics", "tracing"} :
    ShutdownResolves(i, sig) \/ ShutdownRejects(i, sig)

StopSettles == \E i \in DOMAIN calls : PromiseAllSettles(i)

Next == StartCall \/ StopCall \/ ShutdownSettles \/ StopSettles

Spec == Init /\ [][Next]_vars

\* one start call from the initial state, over every option and environment
\* shape the resolution distinguishes
InitResolve == InitWith(EnvsAll)

StartOnce ==
  /\ nCalls = 0
  /\ \E o \in OptionsAll, failing \in AtMostOne(StartOps), mem \in BOOLEAN :
       Start(o, failing, mem)

SpecResolve == InitResolve /\ [][StartOnce]_vars

\* one start call from the initial state, over options that carry the
\* shared fields and options objects
InitBags == InitWith(EnvsBags)

StartOnceWithBags ==
  /\ nCalls = 0
  /\ \E o \in OptionsBags, failing \in AtMostOne(StartOps), mem \in BOOLEAN :
       Start(o, failing, mem)

SpecBags == InitBags /\ [][StartOnceWithBags]_vars

----------------------------------------------------------------------------
(* Properties *)

IsInvoked(c, name) == \E k \in DOMAIN c.invoked : c.invoked[k] = name

AllRunning(r) == r.metrics # NULL /\ r.profiling # NULL /\ r.tracing # NULL

\* a shutdown operation of stop call c failed: it raised when invoked or its
\* promise was rejected
StopFailed(c) == c.error # "" \/ \E sig \in Signals : c.ops[sig] = "fail"

\* the handles are those the most recent call left
RunningIsLastAfter == running = Last.after

\* C1 as stated: a start that follows a start which threw nothing is rejected
\* as already started and leaves the handles of the first start, whatever
\* the first start resolved, all signals disabled included
C1_SecondStartAlwaysThrows ==
  (Prev.op = "start" /\ Prev.result = "ok" /\ Last.op = "start")
    => (Last.result = "already started" /\ running = Prev.after)

\* C1 amended: a start that follows a start which left at least one handle
\* present is rejected as already started, and the three handles are what
\* the first start left
C1_SecondStartThrowsWhenHandlePresent ==
  (Prev.op = "start" /\ Prev.after # NoneRunning /\ Last.op = "start")
    => (/\ Last.result = "already started"
        /\ Last.after = Prev.after
        /\ running = Prev.after)

C1_Witness ==
  /\ Prev.op = "start" /\ Prev.result = "ok" /\ Prev.after # NoneRunning
  /\ Last.op = "start" /\ Last.result = "already started"
  /\ DOMAIN args # {}

\* C2 as stated: when a shutdown operation of a stop call fails, by raising
\* or by a rejected promise, the promise of stop does not fulfil, the three
\* handles are absent after the call, and a start that follows is not
\* rejected as already started
C2_HandlesClearedWhenStopFails ==
  /\ (Last.op = "stop" /\ StopFailed(Last))
       => (running = NoneRunning /\ Last.status # "resolved")
  /\ (Prev.op = "stop" /\ StopFailed(Prev) /\ Last.op = "start")
       => Last.result # "already started"

\* C3 as stated: the promise of a stop call is never settled, fulfilled or
\* rejected, while a shutdown operation the call initiated is pending
C3_SettledOnlyAfterAllFinished ==
  \A i \in DOMAIN calls :
    (calls[i].op = "stop" /\ calls[i].status \in {"resolved", "rejected"})
      => \A sig \in Signals : calls[i].ops[sig] # "pending"

\* C3 amended: the promise of a stop call is fulfilled only after every
\* shutdown operation the call initiated has finished with success; it is
\* rejected only when one of them raised or was rejected, and others may
\* then still be pending
C3_FulfilledOnlyAfterAllSucceeded ==
  \A i \in DOMAIN calls :
    /\ (calls[i].op = "stop" /\ calls[i].status = "resolved")
         => \A sig \in Signals : calls[i].ops[sig] \in {"none", "ok"}
    /\ (calls[i].op = "stop" /\ calls[i].status = "rejected")
         => StopFailed(calls[i])

C3_Witness ==
  /\ Last.op = "stop" /\ Last.status = "resolved"
  /\ Last.ops["metrics"] = "ok" /\ Last.ops["tracing"] = "ok"
  /\ Last.ops["profiling"] = "ok"

\* C4: a start call made while a handle is present is rejected as already
\* started, invokes no subsystem start, changes no handle, installs no
\* diagnostic logger and injects no meter provider
C4_RejectedStartHasNoSideEffect ==
  [][(nCalls' = nCalls + 1 /\ calls'[2].op = "start"
        /\ running # NoneRunning)
       => (/\ calls'[2].result = "already started"
           /\ calls'[2].invoked = <<>>
           /\ running' = running
           /\ diagLogger' = diagLogger
           /\ meterProviders' = meterProviders
           /\ ~calls'[2].setLogger
           /\ calls'[2].injected = "none")]_vars

\* a rejected start whose options name a log level and enable the signals
C4_Witness ==
  /\ Last.op = "start" /\ Last.before # NoneRunning
  /\ Last.result = "already started"
  /\ "logLevel" \in DOMAIN args /\ "metrics" \in DOMAIN args
  /\ diagLogger = "unset"

C5_RecognizedKeys ==
  {"accessToken", "endpoint", "serviceName", "logLevel", "metrics",
   "profiling", "tracing"}

\* C5: a start call made with no handle present and an option key outside
\* the recognized ones throws the unrecognized-option error, invokes no
\* subsystem start and leaves the three handles absent
C5_UnrecognizedKeyRejectedBeforeAnyStart ==
  (Last.op = "start" /\ Last.before = NoneRunning
     /\ DOMAIN args \ C5_RecognizedKeys # {})
    => (/\ Last.result = "extraneous property"
        /\ Last.invoked = <<>>
        /\ Last.after = NoneRunning
        /\ running = NoneRunning)

\* an unrecognized key beside options that enable the three signals
C5_Witness ==
  /\ Last.op = "start" /\ Last.before = NoneRunning
  /\ DOMAIN args \ C5_RecognizedKeys # {}
  /\ {"metrics", "profiling", "tracing"} \subseteq DOMAIN args
  /\ Last.result = "extraneous property"

\* C6 as stated: a stop call made with the three handles present has
\* cleared them when it returns, and a start that follows it is not
\* rejected as already started
C6_StopAfterFullStartClearsAll ==
  /\ (Last.op = "stop" /\ AllRunning(Last.before)) => running = NoneRunning
  /\ (Prev.op = "stop" /\ AllRunning(Prev.before) /\ Last.op = "start")
       => Last.result # "already started"

StartOpOf(sig) ==
  CASE sig = "profiling" -> "startProfiling"
    [] sig = "tracing" -> "startTracing"
    [] sig = "metrics" -> "startMetrics"

StopOpOf(sig) ==
  CASE sig = "profiling" -> "profiling.stop"
    [] sig = "tracing" -> "stopTracing"
    [] sig = "metrics" -> "metrics.stop"

EnvVarOf(sig) ==
  CASE sig = "profiling" -> "SPLUNK_PROFILER_ENABLED"
    [] sig = "tracing" -> "SPLUNK_TRACING_ENABLED"
    [] sig = "metrics" -> "SPLUNK_METRICS_ENABLED"

\* the caller supplied a boolean or an options object for the signal
CallerDecides(sig) ==
  sig \in DOMAIN args /\ args[sig].t \in {"boolean", "object"}

CallerValue(sig) == args[sig].t = "object" \/ args[sig].v = "true"

\* what the environment flag of the signal says: "true", "false" or "none"
\* when it is unset, empty or no boolean string
EnvFlag(sig) ==
  IF EnvVarOf(sig) \notin DOMAIN env THEN "none"
  ELSE IF env[EnvVarOf(sig)] \in {"true", "TRUE"} THEN "true"
  ELSE IF env[EnvVarOf(sig)] \in {"false", "False"} THEN "false"
  ELSE "none"

\* the hard default; that of metrics is raised by memory profiling
HardDefault(sig) ==
  CASE sig = "tracing" -> TRUE
    [] sig = "profiling" -> FALSE
    [] sig = "metrics" -> Last.mem = "true"

\* the decision the precedence caller, environment, default gives
ExpectedEnabled(sig) ==
  IF CallerDecides(sig) THEN CallerValue(sig)
  ELSE IF EnvFlag(sig) # "none" THEN EnvFlag(sig) = "true"
  ELSE HardDefault(sig)

\* the most recent call is a start that came to decide on the signal: it
\* passed the two checks and no earlier subsystem start failed
Decided(sig) ==
  /\ Last.op = "start"
  /\ Last.result \in {"ok", "subsystem error"}
  /\ sig = "tracing" => Last.error # "startProfiling"
  /\ sig = "metrics" => Last.error \notin {"startProfiling", "startTracing"}

\* C7: for each signal a start call invokes the subsystem start exactly
\* when the caller's boolean or options object says so, else when the
\* parseable environment flag says so, else when the hard default says so
C7_EnablementPrecedence ==
  \A sig \in Signals :
    Decided(sig) => (IsInvoked(Last, StartOpOf(sig)) <=> ExpectedEnabled(sig))

\* the environment says true and the caller false: tracing is not started
C7_Witness ==
  /\ Last.op = "start" /\ Last.result = "ok"
  /\ EnvFlag("tracing") = "true"
  /\ CallerDecides("tracing") /\ ~CallerValue("tracing")
  /\ ~IsInvoked(Last, "startTracing")
  /\ ~CallerDecides("profiling") /\ EnvFlag("profiling") = "none"
  /\ ~IsInvoked(Last, "startProfiling")

\* C8: in a start call that passes the two checks, with metrics configured
\* neither by the caller nor by its environment flag: when profiling is
\* enabled, its materialized options have memory profiling enabled and no
\* subsystem start fails, metrics is started and its handle retained; when
\* profiling is disabled, metrics is not started and its handle is absent
C8_MemoryProfilingRaisesMetricsDefault ==
  (Last.op = "start" /\ Last.result \in {"ok", "subsystem error"}
     /\ ~CallerDecides("metrics") /\ EnvFlag("metrics") = "none")
    => (/\ (ExpectedEnabled("profiling") /\ Last.mem = "true"
              /\ Last.result = "ok")
             => (IsInvoked(Last, "startMetrics") /\ running.metrics # NULL)
        /\ ~ExpectedEnabled("profiling")
             => (~IsInvoked(Last, "startMetrics") /\ running.metrics = NULL))

C8_Witness ==
  /\ Last.op = "start" /\ Last.result = "ok"
  /\ ~CallerDecides("metrics") /\ EnvFlag("metrics") = "none"
  /\ ExpectedEnabled("profiling") /\ Last.mem = "true"
  /\ running.metrics # NULL /\ running.tracing = NULL

\* C9 as stated: a start call in which a subsystem start fails keeps the
\* handles of the signals started before the failure and starts no later
\* signal; a start that follows is rejected as already started when a
\* handle was set; a stop that follows shuts down and clears exactly the
\* signals whose handles were set
C9_FailedStartLeftToStop ==
  /\ (Last.op = "start" /\ Last.result = "subsystem error")
       => (/\ Last.invoked[Len(Last.invoked)] = Last.error
           /\ \A sig \in Signals :
                running[sig] # NULL
                  <=> (IsInvoked(Last, StartOpOf(sig))
                         /\ Last.error # StartOpOf(sig)))
  /\ (Prev.op = "start" /\ Prev.result = "subsystem error"
        /\ Prev.after # NoneRunning /\ Last.op = "start")
       => Last.result = "already started"
  /\ (Prev.op = "start" /\ Prev.result = "subsystem error"
        /\ Last.op = "stop")
       => (/\ running = NoneRunning
           /\ \A sig \in Signals :
                IsInvoked(Last, StopOpOf(sig)) <=> Prev.after[sig] # NULL)

\* C10: a stop call made with the three handles absent invokes no shutdown
\* operation, changes no handle and returns a promise that is fulfilled
\* with nothing to wait on
C10_StopWithNothingRunning ==
  /\ \A i \in DOMAIN calls :
       (calls[i].op = "stop" /\ calls[i].before = NoneRunning)
         => (/\ calls[i].invoked = <<>>
             /\ calls[i].after = NoneRunning
             /\ calls[i].ops = NoOps
             /\ calls[i].result = "ok"
             /\ calls[i].status = "resolved")
  /\ (Last.op = "stop" /\ Last.before = NoneRunning) => running = NoneRunning

\* a stop with nothing running, after a stop that shut signals down
C10_Witness ==
  /\ Last.op = "stop" /\ Last.before = NoneRunning
  /\ Last.status = "resolved"
  /\ Prev.op = "stop" /\ Prev.before # NoneRunning

\* the provider the environment asks for: the real one when the
\* auto-instrumentation flag says true, else the no-op one
ExpectedMeterProvider ==
  IF "SPLUNK_INSTRUMENTATION_METRICS_ENABLED" \in DOMAIN env
       /\ env["SPLUNK_INSTRUMENTATION_METRICS_ENABLED"] \in {"true", "TRUE"}
  THEN "real" ELSE "noop"

\* C11: a start call that passes the two checks and in which no subsystem
\* start fails injects a meter provider into every loaded instrumentation,
\* once each and after the last subsystem start of the call, whichever
\* signals are enabled; the provider is the no-op one unless the
\* auto-instrumentation flag says true
C11_MeterProviderInjectedAfterStarts ==
  (Last.op = "start" /\ Last.result = "ok")
    => (/\ \A i \in Instrumentations : meterProviders[i] = ExpectedMeterProvider
        /\ Last.injected = ExpectedMeterProvider
        /\ Cardinality({k \in DOMAIN Last.invoked :
                          Last.invoked[k] = "setMeterProvider"})
             = NumInstrumentations
        /\ \A j, k \in DOMAIN Last.invoked :
             (Last.invoked[j] \in StartOps
                /\ Last.invoked[k] = "setMeterProvider") => j < k)

\* no signal is enabled and the real provider is injected
C11_Witness ==
  /\ Last.op = "start" /\ Last.result = "ok"
  /\ running = NoneRunning
  /\ \A i \in Instrumentations : meterProviders[i] = "real"

SharedFields == {"accessToken", "endpoint", "serviceName"}

\* C12: start called with only accessToken, endpoint and serviceName and
\* no environment variable set invokes the tracing start with exactly
\* those three fields and neither the profiling nor the metrics start;
\* when the tracing start does not throw, only the tracing handle is
\* present afterwards and the instrumentations have the no-op provider
C12_DefaultStartIsTracingOnly ==
  (Last.op = "start" /\ DOMAIN args = SharedFields /\ DOMAIN env = {})
    => (/\ IsInvoked(Last, "startTracing")
        /\ ~IsUndefined(Last.passed["tracing"])
        /\ DOMAIN Last.passed["tracing"][1] = SharedFields
        /\ \A k \in SharedFields : Last.passed["tracing"][1][k] = args[k]
        /\ ~IsInvoked(Last, "startProfiling")
        /\ ~IsInvoked(Last, "startMetrics")
        /\ running.profiling = NULL /\ running.metrics = NULL
        /\ Last.result = "ok"
             => (/\ running.tracing # NULL
                 /\ \A i \in Instrumentations : meterProviders[i] = "noop"))

C12_Witness ==
  /\ Last.op = "start" /\ DOMAIN args = SharedFields /\ DOMAIN env = {}
  /\ Last.result = "ok" /\ running.tracing # NULL
  /\ args["accessToken"].v = "t"

AllowedOf(sig) ==
  CASE sig = "profiling" -> allowedProfilingOptions
    [] sig = "tracing" -> allowedTracingOptions
    [] sig = "metrics" -> allowedMetricsOptions

\* the properties of the caller's options object of the signal
OwnOptions(sig) ==
  IF sig \in DOMAIN args /\ args[sig].t = "object"
  THEN args[sig].bag ELSE EmptyBag

\* the shared fields the signal accepts, under the caller's own options
ExpectedBag(sig) ==
  [k \in (DOMAIN args \cap SharedFields \cap AllowedOf(sig))
           \cup DOMAIN OwnOptions(sig) |->
     IF k \in DOMAIN OwnOptions(sig) THEN OwnOptions(sig)[k] ELSE args[k]]

\* C17: the options passed to a subsystem start are the shared fields
\* restricted to the names the signal accepts, overlaid with the caller's
\* options object of the signal, whose value wins on a key of both; a
\* boolean signal option adds no key
C17_OptionBagIsSharedOverlaidByOwn ==
  Last.op = "start"
    => \A sig \in Signals :
         /\ IsInvoked(Last, StartOpOf(sig)) <=> ~IsUndefined(Last.passed[sig])
         /\ ~IsUndefined(Last.passed[sig])
              => Last.passed[sig][1] = ExpectedBag(sig)

\* tracing is given its own endpoint over the shared one, profiling a
\* boolean and the shared fields it accepts
C17_Witness ==
  /\ Last.op = "start" /\ Last.result = "ok"
  /\ SharedFields \subseteq DOMAIN args
  /\ ~IsUndefined(Last.passed["tracing"])
  /\ DOMAIN OwnOptions("tracing") = {"endpoint"}
  /\ Last.passed["tracing"][1]["endpoint"].v = "e2"
  /\ Last.passed["tracing"][1]["accessToken"].v = "t"
  /\ "profiling" \in DOMAIN args /\ args["profiling"].t = "boolean"
  /\ ~IsUndefined(Last.passed["profiling"])
  /\ DOMAIN Last.passed["profiling"][1] = {"endpoint", "serviceName"}

\* the place of a subsystem operation in the order the claims give
StartRank(op) ==
  CASE op = "startProfiling" -> 1
    [] op = "startTracing" -> 2
    [] op = "startMetrics" -> 3

StopRank(op) ==
  CASE op = "metrics.stop" -> 1
    [] op = "stopTracing" -> 2
    [] op = "profiling.stop" -> 3

\* C13: within one start call the subsystem starts are invoked in the
\* order profiling, tracing, metrics, each at most once
C13_StartOrder ==
  \A i \in DOMAIN calls :
    calls[i].op = "start"
      => \A j, k \in DOMAIN calls[i].invoked :
           (j < k /\ calls[i].invoked[j] \in StartOps
              /\ calls[i].invoked[k] \in StartOps)
             => StartRank(calls[i].invoked[j]) < StartRank(calls[i].invoked[k])

C13_Witness ==
  /\ Last.op = "start" /\ Len(Last.invoked) >= 3
  /\ Last.invoked[1] = "startProfiling"
  /\ Last.invoked[2] = "startTracing"
  /\ Last.invoked[3] = "startMetrics"

\* C14: within one stop call the shutdown operations are invoked in the
\* order metrics, tracing, profiling, each at most once and only for a
\* signal whose handle is present as stop is called; a signal whose handle
\* is absent has no operation invoked and no promise in the set waited on
C14_StopOrder ==
  \A i \in DOMAIN calls :
    calls[i].op = "stop"
      => (/\ \A j, k \in DOMAIN calls[i].invoked :
                j < k => StopRank(calls[i].invoked[j])
                           < StopRank(calls[i].invoked[k])
          /\ \A sig \in Signals :
               calls[i].before[sig] = NULL
                 => (~IsInvoked(calls[i], StopOpOf(sig))
                       /\ calls[i].ops[sig] = "none"))

\* tracing absent: metrics then profiling
C14_Witness ==
  /\ Last.op = "stop"
  /\ Last.invoked = <<"metrics.stop", "profiling.stop">>
  /\ Last.before.tracing = NULL /\ Last.ops["tracing"] = "none"
  /\ Last.ops["metrics"] = "pending"

\* what the caller's tracing option, else the tracing flag, else the
\* default true decide: a function of those alone
TracingDecision ==
  IF CallerDecides("tracing") THEN CallerValue("tracing")
  ELSE IF EnvFlag("tracing") # "none" THEN EnvFlag("tracing") = "true"
  ELSE TRUE

\* C15 as stated: in a start call that passes the two checks the tracing
\* start is invoked exactly when the tracing option, the tracing flag and
\* the default true say so, whatever the profiling and metrics options and
\* flags and whatever the outcome of the profiling start, its failure
\* included
C15_TracingIgnoresProfilingOutcome ==
  (Last.op = "start" /\ Last.result \in {"ok", "subsystem error"})
    => (IsInvoked(Last, "startTracing") <=> TracingDecision)

\* C15 amended: the same, in a start call in which the profiling start
\* does not fail
C15_TracingIgnoresProfilingUnlessItFails ==
  (Last.op = "start" /\ Last.result \in {"ok", "subsystem error"}
     /\ Last.error # "startProfiling")
    => (IsInvoked(Last, "startTracing") <=> TracingDecision)

\* profiling started with memory profiling and metrics started, tracing
\* off by its flag alone
C15_Witness ==
  /\ Last.op = "start" /\ Last.result = "ok"
  /\ IsInvoked(Last, "startProfiling") /\ Last.mem = "true"
  /\ IsInvoked(Last, "startMetrics")
  /\ ~CallerDecides("tracing") /\ EnvFlag("tracing") = "false"
  /\ ~IsInvoked(Last, "startTracing")

\* C16: with profiling started and memory profiling materialized true,
\* metrics is not started and its handle stays absent when the caller
\* passes metrics false, or passes no value and the metrics flag says false
C16_RaiseChangesOnlyTheDefault ==
  (Last.op = "start" /\ Last.result \in {"ok", "subsystem error"}
     /\ IsInvoked(Last, "startProfiling") /\ Last.mem = "true"
     /\ \/ CallerDecides("metrics") /\ ~CallerValue("metrics")
        \/ ~CallerDecides("metrics") /\ EnvFlag("metrics") = "false")
    => (~IsInvoked(Last, "startMetrics") /\ running.metrics = NULL)

C16_Witness ==
  /\ Last.op = "start" /\ Last.result = "ok"
  /\ IsInvoked(Last, "startProfiling") /\ Last.mem = "true"
  /\ ~CallerDecides("metrics") /\ EnvFlag("metrics") = "false"
  /\ running.metrics = NULL /\ running.profiling # NULL

\* the step is a start call that passed the re-entrant check
PassedStartStep ==
  /\ nCalls' = nCalls + 1
  /\ Last'.op = "start"
  /\ Last'.result # "already started"

\* C18: in every step, a start operation is invoked only for a signal whose
\* handle is absent; a handle changes only by being cleared or by being set
\* by a start call that passed the re-entrant check and found every handle
\* absent; and the handles present after the step were all set by one call
C18_OneLiveInstancePerSignal ==
  [][\A sig \in Signals :
       /\ (nCalls' = nCalls + 1 /\ Last'.op = "start"
             /\ IsInvoked(Last', StartOpOf(sig)))
            => running[sig] = NULL
       /\ running'[sig] # running[sig]
            => \/ running'[sig] = NULL
               \/ /\ PassedStartStep
                  /\ running = NoneRunning
                  /\ running'[sig] = nCalls'
       /\ \A other \in Signals :
            (running'[sig] # NULL /\ running'[other] # NULL)
              => running'[sig] = running'[other]]_vars

\* a start after a stop set the handles present, two of them, and they are
\* not those of the first start
C18_Witness ==
  /\ Prev.op = "stop" /\ Prev.invoked # <<>>
  /\ Last.op = "start" /\ Last.result = "ok"
  /\ running.tracing = nCalls /\ running.profiling = nCalls
  /\ nCalls > 1

Count(seq, name) == Cardinality({k \in DOMAIN seq : seq[k] = name})

\* C19: of two stop calls in a row in which no shutdown operation raised
\* when invoked, the shutdown operation of each signal whose handle was
\* present is invoked once in all, that of every other signal never, and the
\* second call invokes none and its promise is fulfilled
C19_StopIsIdempotent ==
  (Prev.op = "stop" /\ Last.op = "stop" /\ Prev.error = ""
     /\ Last.error = "")
    => /\ \A sig \in Signals :
            Count(Prev.invoked \o Last.invoked, StopOpOf(sig))
              = IF Prev.before[sig] # NULL THEN 1 ELSE 0
       /\ Last.invoked = <<>>
       /\ Last.status = "resolved"

\* the second stop is fulfilled while the promise of the first, which shut
\* subsystems down, is rejected
C19_Witness ==
  /\ Prev.op = "stop" /\ Prev.error = "" /\ Prev.invoked # <<>>
  /\ Prev.status = "rejected"
  /\ Last.op = "stop" /\ Last.invoked = <<>> /\ Last.status = "resolved"

====
